---- MODULE Spec2Model ----
(***************************************************************************)
(* The dynamic error container of src/error.rs: `Error`, a one-word owning *)
(* handle to a heap allocation `ErrorImpl<E>` that holds a dispatch table  *)
(* (vtable), a TypeId, an optional Backtrace and the concrete value.       *)
(*                                                                         *)
(* The heap is a sequence of allocations; a handle is an index into it.    *)
(* A caller owns a set of handles (errs) and a set of values obtained by   *)
(* successful owning downcasts (owned).  Every operation of `impl Error`,  *)
(* of its trait impls and of `Chain` is one action; what an operation      *)
(* returns is recorded in `last`.                                          *)
(***************************************************************************)
EXTENDS Integers, Sequences, FiniteSets, TLC

VARIABLES
    cfg_backtrace,   \* the build has #[cfg(backtrace)]
    capture_status,  \* BacktraceStatus that Backtrace::capture() yields in this process
    E_types,         \* the concrete StdError types the caller builds containers from
    heap,            \* Seq of ErrorImpl allocations, indexed by address
    errs,            \* addresses of the containers the caller owns
    owned,           \* values the caller owns after a successful downcast
    built,           \* history: how each allocation was requested, with the caller's argument
    last             \* the last operation and what it returned

vars == <<cfg_backtrace, capture_status, E_types, heap, errs, owned, built, last>>

(***************************************************************************)
(* Bounds of the model.                                                    *)
(***************************************************************************)
MaxAllocs == 3   \* allocations made over a run: the first container and its context layers
MaxCauses == 2   \* longest cause chain inside a caller's error value

(***************************************************************************)
(* Types.  A type is a pair <<family, n>>.  Err(k) is a caller's error     *)
(* type whose values carry k further causes (Err(2) wraps Err(1) wraps     *)
(* Err(0)); Over is a caller's error type declared with an alignment       *)
(* larger than a word; Msg is a Display + Debug message type that is not   *)
(* an error; MessageError and ContextError are the crate's own wrappers.   *)
(***************************************************************************)
Err(k) == <<"Err", k>>
ErrTypes == {Err(k) : k \in 0..MaxCauses}
OverType == <<"Over", 0>>
MsgType == <<"Msg", 0>>
MessageErrorType == <<"MessageError", 0>>
ContextErrorType == <<"ContextError", 0>>
AllTypes == ErrTypes \cup {OverType, MsgType, MessageErrorType, ContextErrorType}

\* TypeId::of::<T>(): one token per type, compared for equality only.
TypeId_of(T) == T

\* mem::size_of::<usize>(), in bytes.
WordSize == 8

\* mem::size_of::<Option<Backtrace>>() in a build with backtrace support.
SizeOfOptionBacktrace == 7 * WordSize

\* The alignment the caller declared for the type Over (#[repr(align(64))]).
OverAlign == 8 * WordSize

\* mem::align_of::<T>() of the modelled types.
align_of(T) == IF T = OverType THEN OverAlign ELSE WordSize

None == <<>>
Some(x) == <<x>>

Statuses == {"Captured", "Disabled", "Unsupported"}
Texts == {<<"p", 0>>, <<"q", 0>>}
CauseText(k) == <<"cause", k>>
NoText == <<"", 0>>

(***************************************************************************)
(* Values.  A value is a record: its concrete type, its Display text, the  *)
(* Backtrace its own StdError::backtrace() reports (None or Some status),  *)
(* the value its StdError::source() borrows (None or Some value), and, for *)
(* a ContextError, the handle of the Error it owns (0 otherwise).          *)
(***************************************************************************)
RECURSIVE Cause(_)
Cause(k) ==
    [ty |-> Err(k), text |-> CauseText(k), bt |-> None,
     source |-> IF k = 0 THEN None ELSE Some(Cause(k - 1)), inner |-> 0]

SourceOfType(T) == IF T[1] = "Err" /\ T[2] > 0 THEN Some(Cause(T[2] - 1)) ELSE None

\* What a value's own backtrace() can report in this build and process.
OwnTraces == IF cfg_backtrace THEN {None, Some(capture_status)} ELSE {None}

ValuesOfType(T) ==
    {[ty |-> T, text |-> t, bt |-> b, source |-> SourceOfType(T), inner |-> 0] :
        t \in Texts, b \in OwnTraces}

ErrorValues == UNION {ValuesOfType(T) : T \in E_types}

MessageValues ==
    {[ty |-> MsgType, text |-> t, bt |-> None, source |-> None, inner |-> 0] : t \in Texts}

(***************************************************************************)
(* Layout of #[repr(C)] struct ErrorImpl<E> { vtable, type_id, backtrace,  *)
(* error }.  Fields are laid out in order, each at the next offset that is *)
(* a multiple of its alignment.  Option<Backtrace> is empty when the build *)
(* has no backtrace support (enum Backtrace {}).                           *)
(***************************************************************************)
RoundUp(n, a) == ((n + a - 1) \div a) * a

\* End of the three header fields: vtable (a pointer), type_id (a word),
\* backtrace.
HeaderSize == 2 * WordSize + (IF cfg_backtrace THEN SizeOfOptionBacktrace ELSE 0)

\* Offset of the field `error` in ErrorImpl<E>, for E of the given alignment.
offset_of_error(align) == RoundUp(HeaderSize, align)

\* Offset of the field `error: ()` in ErrorImpl<()>, the type the handle is
\* transmuted to; mem::align_of::<()>() is 1.
ErasedOffset == offset_of_error(1)

(***************************************************************************)
(* Construction.                                                           *)
(***************************************************************************)
\* struct MessageError<M>(M), #[repr(transparent)]: the bits of M, typed as the wrapper.
MessageError(message) == [message EXCEPT !.ty = MessageErrorType]

\* ContextError { error, context }: a value owning the Error behind `handle`.
\* Its Display renders the context; it reports no backtrace of its own.
ContextError(handle, context) ==
    [ty |-> ContextErrorType, text |-> context, bt |-> None, source |-> None, inner |-> handle]

\* Error::construct: the vtable is that of `error` seen as &dyn StdError; the
\* allocation is a Box<ErrorImpl<E>>, so the value sits at E's offset.
\* freed and dropped count the deallocations of the box and the runs of the
\* value's destructor.
construct(error, type_id, backtrace) ==
    [vtable |-> error.ty, type_id |-> type_id, backtrace |-> backtrace, error |-> error,
     offset |-> offset_of_error(align_of(error.ty)), freed |-> 0, dropped |-> 0]

\* The backtrace Error::new passes on: none when the value reports its own.
new_backtrace(error) ==
    IF cfg_backtrace
        THEN (IF error.bt # None THEN None ELSE Some(capture_status))
        ELSE None

new(error) == construct(error, TypeId_of(error.ty), new_backtrace(error))

\* new_adhoc recording the identity of the wrapper instead of the message type.
new_adhoc_wrapper_id(message, backtrace) ==
    construct(MessageError(message), TypeId_of(MessageErrorType), backtrace)

new_adhoc(message, backtrace) ==
    construct(MessageError(message), TypeId_of(message.ty), backtrace)

\* impl From<E> for Error
from(error) == new(error)

\* context building the new container from the message alone.
context_message_only(handle, c) ==
    from(MessageError([ty |-> MsgType, text |-> c, bt |-> None, source |-> None, inner |-> 0]))

\* Error::context
context(handle, c) == from(ContextError(handle, c))

(***************************************************************************)
(* The accessor view.  ErrorImpl<()>::error pairs the stored vtable with   *)
(* the address of ErrorImpl<()>'s own `error` field.  Reading through a    *)
(* view whose address is not where the value was stored reads bytes that   *)
(* are not that value: any value of the vtable's type may be seen.         *)
(***************************************************************************)
error(a) == [vtable |-> heap[a].vtable, alloc |-> a, off |-> ErasedOffset]

error_mut(a) == [vtable |-> heap[a].vtable, alloc |-> a, off |-> ErasedOffset]

\* impl Deref for Error / impl DerefMut for Error
deref(a) == error(a)

deref_mut(a) == error_mut(a)

Placed(view) == view.off = heap[view.alloc].offset

\* The values a read through the view can yield.
Target(view) ==
    IF Placed(view) THEN {heap[view.alloc].error} ELSE ValuesOfType(view.vtable)

\* StdError::source of a ContextError: the top-level view of the Error it owns.
ContextError_source(v) == Target(deref(v.inner))

\* next.source(), dispatched on the value's type, as the set of values it can
\* yield (empty: None).
source(v) ==
    IF v.ty = ContextErrorType THEN ContextError_source(v)
    ELSE IF v.source = None THEN {}
    ELSE {v.source[1]}

(***************************************************************************)
(* Chain.  The iterator holds `next`; each call of next() yields it and    *)
(* replaces it by its source.                                              *)
(***************************************************************************)
\* next() that takes `next` and does not store its source.
Chain_next_no_source(it) ==
    IF it.next = None THEN {[item |-> None, it |-> it]}
    ELSE {[item |-> Some(it.next[1]), it |-> [next |-> None]]}

\* impl Iterator for Chain: the outcomes [item, it] of one call.
Chain_next(it) ==
    IF it.next = None THEN {[item |-> None, it |-> it]}
    ELSE LET next == it.next[1] IN
         IF source(next) = {} THEN {[item |-> Some(next), it |-> [next |-> None]]}
         ELSE {[item |-> Some(next), it |-> [next |-> Some(s)]] : s \in source(next)}

\* Error::chain: the iterators it can return.
chain(a) == {[next |-> Some(v)] : v \in Target(error(a))}

\* Draining an iterator (a `for` loop over it): the sequences of items it can yield.
RECURSIVE Collect(_)
Collect(it) ==
    UNION {IF o.item = None THEN {<<>>}
           ELSE {<<o.item[1]>> \o r : r \in Collect(o.it)} : o \in Chain_next(it)}

\* Error::chain followed by a `for` loop: the sequences of items a drain can yield.
chain_items(a) == UNION {Collect(it) : it \in chain(a)}

\* Error::root_cause: chain.next().unwrap(), replaced by every later item.
\* ok is FALSE when the unwrap panics.
root_cause(a) ==
    UNION {UNION {IF o.item = None THEN {[ok |-> FALSE, val |-> None]}
                  ELSE {[ok |-> TRUE,
                         val |-> Some(IF rest = <<>> THEN o.item[1] ELSE rest[Len(rest)])] :
                            rest \in Collect(o.it)} : o \in Chain_next(it)} : it \in chain(a)}

(***************************************************************************)
(* The downcast engine.                                                    *)
(***************************************************************************)
\* is() without the comparison.
is_unchecked(a, T) == TRUE

\* Error::is
is(a, T) == TypeId_of(T) = heap[a].type_id

\* Error::downcast_ref: the view's address, retyped as *const E.
downcast_ref(a, T) ==
    IF is(a, T) THEN Some([alloc |-> error(a).alloc, off |-> error(a).off]) ELSE None

\* Error::downcast_mut: the mutable view's address, retyped as *mut E.
downcast_mut(a, T) ==
    IF is(a, T) THEN Some([alloc |-> error_mut(a).alloc, off |-> error_mut(a).off]) ELSE None

\* ptr::read of a reference typed &T: the bits there, as a T.
ptr_read(ref, T) ==
    IF ref.off = heap[ref.alloc].offset
        THEN {[heap[ref.alloc].error EXCEPT !.ty = T]}
        ELSE ValuesOfType(T)

(***************************************************************************)
(* Destruction.  Operators take and return heaps; where a destructor runs  *)
(* through a view that is not on the value, either outcome is possible, so *)
(* they return the set of heaps that can result.                           *)
(***************************************************************************)
\* Drop glue of Box<ErrorImpl<()>>: the header fields (the stored backtrace
\* among them) and the `error: ()` field are dropped, the box is deallocated.
drop_box(hp, a) == [hp EXCEPT ![a].freed = @ + 1]

\* The destructor of the value that was first stored in allocation `vid` runs.
run_destructor(hp, vid) == [hp EXCEPT ![vid].dropped = @ + 1]

RECURSIVE Error_drop(_, _)
\* ptr::drop_in_place(view): the vtable's destructor on the view's address.
\* A ContextError's drop glue drops the Error it owns.
drop_in_place(hp, a) ==
    LET v == hp[a].error
        h1 == run_destructor(hp, a)
    IN  IF hp[a].offset # ErasedOffset THEN {hp, h1}
        ELSE IF v.ty = ContextErrorType THEN Error_drop(h1, v.inner)
        ELSE {h1}

\* impl Drop for Error, then the drop glue of its field `inner`.
Error_drop(hp, a) == {drop_box(h, a) : h \in drop_in_place(hp, a)}

\* downcast without mem::forget(self): impl Drop for Error runs on the shell.
downcast_shell_no_forget(hp, a) == drop_box(run_destructor(hp, a), a)

\* Error::downcast, success branch, after ptr::read took the value:
\* drop(ptr::read(&self.inner)); mem::forget(self).
downcast_shell(hp, a) == drop_box(hp, a)

\* A value the caller owns is dropped: its destructor runs, and a
\* ContextError's drop glue drops the Error it owns.
value_drop(hp, x) ==
    IF x.value.ty = ContextErrorType
        THEN Error_drop(run_destructor(hp, x.vid), x.value.inner)
        ELSE {run_destructor(hp, x.vid)}

(***************************************************************************)
(* Rendering.                                                              *)
(***************************************************************************)
\* Error::backtrace: the stored backtrace, or else the value's own, or else
\* the panic of expect("backtrace capture failed").
backtrace(a) ==
    IF heap[a].backtrace # None THEN {[ok |-> TRUE, status |-> heap[a].backtrace[1]]}
    ELSE {IF v.bt # None THEN [ok |-> TRUE, status |-> v.bt[1]]
                         ELSE [ok |-> FALSE, status |-> "panic"] : v \in Target(error(a))}

\* impl Display for Error: the texts it can write.
Display_fmt(a) == {v.text : v \in Target(error(a))}

\* One line of output.  kind: "message" (a value's text alone), "blank",
\* "caused_by" (the line "Caused by:"), "cause" (four spaces, then the index
\* and ": " when index is Some, then the text), "backtrace" (the rendered
\* trace), "disabled_note" (the line "Backtrace disabled; run with ...").
Line(kind, index, text) == [kind |-> kind, index |-> index, text |-> text]

\* Iterator::skip(1)
skip1(items) == IF items = <<>> THEN <<>> ELSE Tail(items)

\* enumerate counting from 1.
enumerate_from_one(items) == [i \in 1..Len(items) |-> [n |-> i, error |-> items[i]]]

\* Iterator::enumerate
enumerate(items) == [i \in 1..Len(items) |-> [n |-> i - 1, error |-> items[i]]]

\* impl Debug for Error, lines 319-329: the cause section for a drained chain.
Debug_causes(items) ==
    LET rest == enumerate(skip1(items)) IN
    IF rest = <<>> THEN <<>>
    ELSE <<Line("blank", None, NoText), Line("caused_by", None, NoText),
           Line("cause", IF Len(rest) >= 2 THEN Some(rest[1].n) ELSE None, rest[1].error.text)>>
         \o [i \in 1..(Len(rest) - 1) |->
                Line("cause", Some(rest[i + 1].n), rest[i + 1].error.text)]

\* The trace section with the note printed for every status but Captured.
Debug_trace_note_otherwise(b) ==
    IF ~cfg_backtrace THEN <<>>
    ELSE IF b.status = "Captured"
        THEN <<Line("blank", None, NoText), Line("backtrace", None, NoText)>>
    ELSE <<Line("blank", None, NoText), Line("disabled_note", None, NoText)>>

\* impl Debug for Error, lines 331-346: the trace section for a backtrace() outcome.
Debug_trace(b) ==
    IF ~cfg_backtrace THEN <<>>
    ELSE IF b.status = "Captured"
        THEN <<Line("blank", None, NoText), Line("backtrace", None, NoText)>>
    ELSE IF b.status = "Disabled"
        THEN <<Line("blank", None, NoText), Line("disabled_note", None, NoText)>>
    ELSE <<>>

\* impl Debug for Error: the outcomes [out, panicked].
Debug_fmt(a) ==
    {[out |-> <<Line("message", None, t)>> \o Debug_causes(items) \o Debug_trace(b),
      panicked |-> cfg_backtrace /\ ~b.ok] :
        t \in Display_fmt(a),
        items \in chain_items(a),
        b \in backtrace(a)}

(***************************************************************************)
(* The state machine.  A run follows one container from its construction   *)
(* by new or new_adhoc through context wrappings and reads to its release  *)
(* or its successful downcast; error.rs keeps no state outside containers, *)
(* so containers of different runs do not affect each other.               *)
(***************************************************************************)
Blank ==
    [op |-> "none", h |-> 0, ty |-> MsgType, ok |-> FALSE, val |-> None, items |-> <<>>,
     out |-> <<>>, ref |-> None, text |-> NoText, status |-> "", pre |-> <<>>]

\* The types a caller can name in is / downcast / downcast_ref / downcast_mut.
QueryTypes == AllTypes

\* The backtrace arguments a caller of new_adhoc can pass in this build.
TraceArgs == IF cfg_backtrace THEN {None, Some(capture_status)} ELSE {None}

InitWith(types) ==
    /\ cfg_backtrace \in BOOLEAN
    /\ capture_status \in Statuses
    /\ ~cfg_backtrace => capture_status = "Unsupported"
    /\ E_types = types
    /\ heap = <<>>
    /\ errs = {}
    /\ owned = {}
    /\ built = <<>>
    /\ last = Blank

\* Callers whose error types are word-aligned.
Init == InitWith(ErrTypes)

\* Callers that also use an error type declared with a larger alignment.
InitOverAligned == InitWith(ErrTypes \cup {OverType})

Unchanged_build == UNCHANGED <<cfg_backtrace, capture_status, E_types>>

\* Error::new(error)
New(v) ==
    /\ heap = <<>>
    /\ heap' = Append(heap, new(v))
    /\ errs' = errs \cup {Len(heap) + 1}
    /\ built' = Append(built, [op |-> "new", arg |-> v, trace |-> None])
    /\ last' = [Blank EXCEPT !.op = "new", !.h = Len(heap) + 1]
    /\ UNCHANGED owned
    /\ Unchanged_build

\* Error::new_adhoc(message, backtrace)
NewAdhoc(m, bt) ==
    /\ heap = <<>>
    /\ heap' = Append(heap, new_adhoc(m, bt))
    /\ errs' = errs \cup {Len(heap) + 1}
    /\ built' = Append(built, [op |-> "new_adhoc", arg |-> m, trace |-> bt])
    /\ last' = [Blank EXCEPT !.op = "new_adhoc", !.h = Len(heap) + 1]
    /\ UNCHANGED owned
    /\ Unchanged_build

\* Error::context(self, context): self moves into the ContextError.
\* last.pre keeps what self.chain() yielded before the call.
Context(a, c) ==
    /\ Len(heap) < MaxAllocs
    /\ a \in errs
    /\ heap' = Append(heap, context(a, c))
    /\ errs' = (errs \ {a}) \cup {Len(heap) + 1}
    /\ built' = Append(built, [op |-> "context", arg |-> ContextError(a, c), trace |-> None])
    /\ \E pre \in chain_items(a) :
          last' = [Blank EXCEPT !.op = "context", !.h = Len(heap) + 1, !.text = c, !.pre = pre]
    /\ UNCHANGED owned
    /\ Unchanged_build

\* Error::backtrace(&self), which exists under #[cfg(backtrace)] only.
Backtrace(a) ==
    /\ cfg_backtrace
    /\ a \in errs
    /\ \E b \in backtrace(a) :
          last' = [Blank EXCEPT !.op = "backtrace", !.h = a, !.ok = b.ok, !.status = b.status]
    /\ UNCHANGED <<heap, errs, owned, built>>
    /\ Unchanged_build

\* Error::chain(&self), drained.
ChainAll(a) ==
    /\ a \in errs
    /\ \E items \in chain_items(a) :
          last' = [Blank EXCEPT !.op = "chain", !.h = a, !.items = items]
    /\ UNCHANGED <<heap, errs, owned, built>>
    /\ Unchanged_build

\* Error::root_cause(&self)
RootCause(a) ==
    /\ a \in errs
    /\ \E r \in root_cause(a) :
          last' = [Blank EXCEPT !.op = "root_cause", !.h = a, !.ok = r.ok, !.val = r.val]
    /\ UNCHANGED <<heap, errs, owned, built>>
    /\ Unchanged_build

\* Error::is::<T>(&self)
Is(a, T) ==
    /\ a \in errs
    /\ last' = [Blank EXCEPT !.op = "is", !.h = a, !.ty = T, !.ok = is(a, T)]
    /\ UNCHANGED <<heap, errs, owned, built>>
    /\ Unchanged_build

\* Error::downcast_ref::<T>(&self)
DowncastRef(a, T) ==
    /\ a \in errs
    /\ last' = [Blank EXCEPT !.op = "downcast_ref", !.h = a, !.ty = T,
                             !.ok = downcast_ref(a, T) # None, !.ref = downcast_ref(a, T)]
    /\ UNCHANGED <<heap, errs, owned, built>>
    /\ Unchanged_build

\* Error::downcast_mut::<T>(&mut self)
DowncastMut(a, T) ==
    /\ a \in errs
    /\ last' = [Blank EXCEPT !.op = "downcast_mut", !.h = a, !.ty = T,
                             !.ok = downcast_mut(a, T) # None, !.ref = downcast_mut(a, T)]
    /\ UNCHANGED <<heap, errs, owned, built>>
    /\ Unchanged_build

\* Error::downcast::<T>(self)
Downcast(a, T) ==
    /\ a \in errs
    /\ \/ /\ downcast_ref(a, T) # None
          /\ \E e \in ptr_read(downcast_ref(a, T)[1], T) :
                /\ owned' = owned \cup {[vid |-> a, value |-> e]}
                /\ last' = [Blank EXCEPT !.op = "downcast", !.h = a, !.ty = T, !.ok = TRUE,
                                         !.val = Some(e)]
          /\ heap' = downcast_shell(heap, a)
          /\ errs' = errs \ {a}
       \/ /\ downcast_ref(a, T) = None
          /\ last' = [Blank EXCEPT !.op = "downcast", !.h = a, !.ty = T, !.ok = FALSE]
          /\ UNCHANGED <<heap, errs, owned>>
    /\ UNCHANGED built
    /\ Unchanged_build

\* impl Display for Error
Display(a) ==
    /\ a \in errs
    /\ \E t \in Display_fmt(a) :
          last' = [Blank EXCEPT !.op = "display", !.h = a, !.text = t]
    /\ UNCHANGED <<heap, errs, owned, built>>
    /\ Unchanged_build

\* impl Debug for Error
Debug(a) ==
    /\ a \in errs
    /\ \E d \in Debug_fmt(a) :
          last' = [Blank EXCEPT !.op = "debug", !.h = a, !.out = d.out, !.ok = ~d.panicked]
    /\ UNCHANGED <<heap, errs, owned, built>>
    /\ Unchanged_build

\* The caller releases a container: impl Drop for Error.
Drop(a) ==
    /\ a \in errs
    /\ heap' \in Error_drop(heap, a)
    /\ errs' = errs \ {a}
    /\ last' = [Blank EXCEPT !.op = "drop", !.h = a]
    /\ UNCHANGED <<owned, built>>
    /\ Unchanged_build

\* The caller releases a value it got from a successful downcast.
DropValue(x) ==
    /\ x \in owned
    /\ heap' \in value_drop(heap, x)
    /\ owned' = owned \ {x}
    /\ last' = [Blank EXCEPT !.op = "drop_value", !.h = x.vid]
    /\ UNCHANGED <<errs, built>>
    /\ Unchanged_build

Next ==
    \/ \E v \in ErrorValues : New(v)
    \/ \E m \in MessageValues, bt \in TraceArgs : NewAdhoc(m, bt)
    \/ \E a \in errs, c \in Texts : Context(a, c)
    \/ \E a \in errs : Backtrace(a)
    \/ \E a \in errs : ChainAll(a)
    \/ \E a \in errs : RootCause(a)
    \/ \E a \in errs, T \in QueryTypes : Is(a, T)
    \/ \E a \in errs, T \in QueryTypes : DowncastRef(a, T)
    \/ \E a \in errs, T \in QueryTypes : DowncastMut(a, T)
    \/ \E a \in errs, T \in QueryTypes : Downcast(a, T)
    \/ \E a \in errs : Display(a)
    \/ \E a \in errs : Debug(a)
    \/ \E a \in errs : Drop(a)
    \/ \E x \in owned : DropValue(x)

Spec == Init /\ [][Next]_vars

SpecOverAligned == InitOverAligned /\ [][Next]_vars

(***************************************************************************)
(* Properties.                                                             *)
(***************************************************************************)
Allocs == 1..Len(heap)

\* The container at `a` and the containers owned through its ContextError values.
RECURSIVE Nest(_)
Nest(a) ==
    {a} \cup (IF heap[a].error.ty = ContextErrorType THEN Nest(heap[a].error.inner) ELSE {})

\* Containers some owner still holds: the caller's, those inside them, and
\* those inside ContextError values the caller took out by downcast.
LiveContainers ==
    UNION {Nest(a) : a \in errs}
        \cup UNION {Nest(x.value.inner) : x \in {y \in owned : y.value.ty = ContextErrorType}}

\* Values some owner still holds, named by the allocation they were first stored in.
LiveValues == LiveContainers \cup {x.vid : x \in owned}

\* C1: for every type T that new accepts and every value v of T, new(v)
\* followed by downcast::<T>() takes the success branch and returns a value
\* equal to v.
C1_NewDowncastRoundTrip ==
    (last.op = "downcast" /\ built[last.h].op = "new" /\ last.ty = built[last.h].arg.ty)
        => (last.ok /\ last.val = Some(built[last.h].arg))

\* C1, seen from a reachable state: a container built by new from a value of
\* the over-aligned type was downcast to that type.
C1_OverAlignedDowncast ==
    /\ last.op = "downcast"
    /\ last.ok
    /\ built[last.h].op = "new"
    /\ last.ty = OverType

\* A step of downcast::<W>() on the container at `a`, whose stored type
\* identity is not W's, returns the failure branch: the call changes
\* nothing (type identity, Display text, chain contents, ownership), runs no
\* destructor and frees nothing, and a downcast to the stored type is still
\* possible afterwards.
C2_FailedDowncastStep(a) ==
    (last'.op = "downcast" /\ last'.h = a /\ a \in errs
        /\ heap[a].type_id # TypeId_of(last'.ty))
    => /\ ~last'.ok
       /\ last'.val = None
       /\ a \in errs'
       /\ errs' = errs
       /\ owned' = owned
       /\ heap' = heap
       /\ heap'[a].type_id = heap[a].type_id
       /\ Display_fmt(a)' = Display_fmt(a)
       /\ chain_items(a)' = chain_items(a)
       /\ \A b \in Nest(a) : heap'[b].dropped = 0 /\ heap'[b].freed = 0
       /\ \E T \in QueryTypes :
             TypeId_of(T) = heap[a].type_id /\ downcast_ref(a, T)' # None

\* C2: every step of downcast::<W>() on a container whose stored type
\* identity is not W's returns the failure branch and leaves the container,
\* and everything it owns, as it was.
C2_FailedDowncastKeepsContainer == [][\A a \in 1..MaxAllocs : C2_FailedDowncastStep(a)]_vars

\* C2's case: a downcast to a type other than the stored one has returned,
\* on a container with a context layer.
C2_Witness ==
    /\ last.op = "downcast"
    /\ ~last.ok
    /\ last.h \in errs
    /\ heap[last.h].type_id # TypeId_of(last.ty)
    /\ Len(heap) >= 2

\* C3: over every lifecycle the wrapped value's destructor runs exactly once
\* and the allocation is freed exactly once.  As long as some owner holds a
\* value its destructor has not run, once no owner holds it, it has run once;
\* likewise for allocations.  After a successful downcast the allocation is
\* freed and the destructor has not run until the extracted value is dropped.
C3_DropExactlyOnce ==
    \A a \in Allocs :
        /\ heap[a].dropped = (IF a \in LiveValues THEN 0 ELSE 1)
        /\ heap[a].freed = (IF a \in LiveContainers THEN 0 ELSE 1)

\* C3's case: a ContextError was taken out by downcast (its shell freed, its
\* destructor not run), then dropped, which released the container inside it.
C3_Witness ==
    /\ last.op = "drop_value"
    /\ Len(heap) >= 2
    /\ errs = {}
    /\ owned = {}
    /\ \A a \in Allocs : heap[a].dropped = 1 /\ heap[a].freed = 1

\* The items are a cause chain: each next item is the source of the one
\* before it, and the last one reports no source.
IsCauseChain(items) ==
    /\ Len(items) >= 1
    /\ \A i \in 1..(Len(items) - 1) : source(items[i]) = {items[i + 1]}
    /\ source(items[Len(items)]) = {}

\* C4: chain() yields the top-level value first, then each successive cause
\* in order, and ends after the value that reports no cause (for a value of
\* type Err(k), built by new: k + 1 items of types Err(k), ..., Err(0));
\* root_cause() returns the last of them and its unwrap never fails.
C4_ChainOrder ==
    /\ last.op = "chain" =>
          /\ IsCauseChain(last.items)
          /\ last.items[1] = heap[last.h].error
          /\ (built[last.h].op = "new" /\ built[last.h].arg.ty \in ErrTypes) =>
                LET k == built[last.h].arg.ty[2] IN
                /\ Len(last.items) = k + 1
                /\ \A i \in 1..(k + 1) : last.items[i].ty = Err(k + 1 - i)
    /\ last.op = "root_cause" =>
          /\ last.ok
          /\ \A items \in chain_items(last.h) : last.val = Some(items[Len(items)])
          /\ source(last.val[1]) = {}
          /\ (source(heap[last.h].error) = {}) => last.val = Some(heap[last.h].error)

\* C4's case: the chain of a container built by new from a value that wraps
\* a cause that wraps a cause was drained.
C4_Witness ==
    /\ last.op = "chain"
    /\ built[last.h].op = "new"
    /\ Len(last.items) = 3
    /\ last.items[3].ty = Err(0)

\* C5: context(c, msg) yields a container whose Display text is msg and whose
\* chain is the context layer, rendering msg, followed by everything c's chain
\* yielded before the call, in the same order (the second item is the value c
\* wrapped).
C5_ContextPrepends ==
    last.op = "context" =>
        LET n == last.h
            c == heap[n].error.inner
        IN  /\ Display_fmt(n) = {last.text}
            /\ \A items \in chain_items(n) :
                  /\ Len(items) >= 2
                  /\ items[1].text = last.text
                  /\ items[2] = heap[c].error
                  /\ Tail(items) = last.pre
            /\ chain_items(n) # {}

\* C5's case: context was applied to a container whose chain had further causes.
C5_Witness ==
    /\ last.op = "context"
    /\ Len(last.pre) >= 2
    /\ Len(heap) >= 2

CauseLines(out) == {j \in 1..Len(out) : out[j].kind = "cause"}

\* C6: Debug prints the top-level message on a line of its own; with no
\* further cause it prints no "Caused by:" section; with one further cause it
\* prints it under "Caused by:" without an index; with k >= 2 further causes
\* it prints all of them in chain order with the indexes 0, 1, ..., k - 1.
C6_DebugCauses ==
    last.op = "debug" =>
        \A items \in chain_items(last.h) :
            LET out == last.out
                k == Len(items) - 1
            IN  /\ Len(out) >= 1
                /\ out[1] = Line("message", None, items[1].text)
                /\ Cardinality(CauseLines(out)) = k
                /\ k = 0 => \A j \in 1..Len(out) : out[j].kind # "caused_by"
                /\ k >= 1 =>
                      /\ Len(out) >= 3 + k
                      /\ out[2].kind = "blank"
                      /\ out[3].kind = "caused_by"
                      /\ Cardinality({j \in 1..Len(out) : out[j].kind = "caused_by"}) = 1
                /\ k = 1 => out[4] = Line("cause", None, items[2].text)
                /\ k >= 2 =>
                      \A i \in 1..k : out[3 + i] = Line("cause", Some(i - 1), items[i + 1].text)

\* C6's case: a container with at least two further causes was rendered.
C6_Witness ==
    /\ last.op = "debug"
    /\ Cardinality(CauseLines(last.out)) >= 2
    /\ last.out[4].index = Some(0)
    /\ last.out[5].index = Some(1)

LinesOfKind(out, kind) == {j \in 1..Len(out) : out[j].kind = kind}

\* C7 as claimed, in a build with backtrace support: a Debug rendering ends
\* with a trace section, the trace when one was captured and the disabled
\* note in every other trace status; no rendering has neither.
C7_AlwaysTraceOrNote ==
    (cfg_backtrace /\ last.op = "debug" /\ last.ok) =>
        /\ Len(last.out) >= 1
        /\ last.out[Len(last.out)].kind \in {"backtrace", "disabled_note"}

\* The status of the trace the container makes available: the stored one, or
\* else the one its value reports ("none" when there is neither).
AvailableStatus(a) ==
    IF heap[a].backtrace # None THEN heap[a].backtrace[1]
    ELSE IF heap[a].error.bt # None THEN heap[a].error.bt[1]
    ELSE "none"

\* C7, amended: a Debug rendering that completes ends with the trace when
\* the container's trace has status Captured, with the one-line disabled note
\* when it has status Disabled, and has no trace section in any other status
\* or in a build without backtrace support.
C7_TraceSectionByStatus ==
    (last.op = "debug" /\ last.ok) =>
        LET out == last.out
            st == AvailableStatus(last.h)
            n == Len(out)
        IN  /\ (cfg_backtrace /\ st = "Captured") =>
                  /\ n >= 3 /\ out[n].kind = "backtrace" /\ out[n - 1].kind = "blank"
                  /\ LinesOfKind(out, "backtrace") = {n}
                  /\ LinesOfKind(out, "disabled_note") = {}
            /\ (cfg_backtrace /\ st = "Disabled") =>
                  /\ n >= 3 /\ out[n].kind = "disabled_note" /\ out[n - 1].kind = "blank"
                  /\ LinesOfKind(out, "disabled_note") = {n}
                  /\ LinesOfKind(out, "backtrace") = {}
            /\ (~cfg_backtrace \/ st \notin {"Captured", "Disabled"}) =>
                  /\ LinesOfKind(out, "backtrace") = {}
                  /\ LinesOfKind(out, "disabled_note") = {}
                  /\ out[n].kind \in {"message", "cause"}

\* C7's case: a container whose trace is neither captured nor disabled was
\* rendered, in a build with backtrace support.
C7_Witness ==
    /\ last.op = "debug"
    /\ last.ok
    /\ cfg_backtrace
    /\ AvailableStatus(last.h) = "Unsupported"
    /\ LinesOfKind(last.out, "disabled_note") = {}

\* C8: in a build with backtrace support every container has a trace
\* available, whichever operation built it: construction stores a trace
\* exactly when the wrapped value supplies none, so the stored trace is
\* present or the value reports one, and backtrace() never panics.
C8_TraceAlwaysAvailable ==
    cfg_backtrace =>
        /\ \A a \in LiveContainers :
              /\ (heap[a].backtrace # None) <=> (heap[a].error.bt = None)
              /\ heap[a].backtrace # None \/ heap[a].error.bt # None
        /\ last.op = "backtrace" => last.ok

\* C8's case: backtrace() was called on a container built by new_adhoc.
C8_AdhocBacktraceCalled ==
    /\ last.op = "backtrace"
    /\ built[last.h].op = "new_adhoc"

TypeMatches(a, T) == heap[a].type_id = TypeId_of(T)

\* In every state: the stored type identity is that of the type the
\* container was built from (E for new, the message type M and not
\* MessageError<M> for new_adhoc); is::<T>() is true iff the stored identity
\* is T's; downcast_ref::<T>() and downcast_mut::<T>() return a reference to
\* the stored value iff it is and nothing otherwise; new_adhoc(m) followed by
\* downcast::<M>() returns m.
C10_TypeQueriesAgree ==
    /\ \A a \in Allocs :
          /\ built[a].op = "new" => heap[a].type_id = TypeId_of(built[a].arg.ty)
          /\ built[a].op = "new_adhoc" =>
                /\ heap[a].type_id = TypeId_of(built[a].arg.ty)
                /\ heap[a].type_id # TypeId_of(MessageErrorType)
    /\ last.op = "is" => (last.ok <=> TypeMatches(last.h, last.ty))
    /\ last.op \in {"downcast_ref", "downcast_mut"} =>
          /\ (last.ref # None) <=> TypeMatches(last.h, last.ty)
          /\ last.ok <=> TypeMatches(last.h, last.ty)
          /\ TypeMatches(last.h, last.ty) =>
                last.ref = Some([alloc |-> last.h, off |-> heap[last.h].offset])
    /\ (last.op = "downcast" /\ built[last.h].op = "new_adhoc"
            /\ last.ty = built[last.h].arg.ty) =>
          (last.ok /\ last.val = Some(built[last.h].arg))

\* In every step: is, downcast_ref and downcast_mut change neither the
\* stored identity, nor the vtable pairing, nor the value, nor who owns what.
C10_QueryStep ==
    last'.op \in {"is", "downcast_ref", "downcast_mut"} =>
        /\ heap' = heap
        /\ errs' = errs
        /\ owned' = owned

\* C10: the stored type identity is that of the type the container was built
\* from (the message type itself for new_adhoc), is, downcast_ref,
\* downcast_mut and downcast agree with it, and the three borrowing queries
\* change nothing.
C10_TypeIdentity == [](C10_TypeQueriesAgree) /\ [][C10_QueryStep]_vars

\* C10's case: a container built by new_adhoc from a message of type M was
\* downcast to M.
C10_Witness ==
    /\ last.op = "downcast"
    /\ built[last.h].op = "new_adhoc"
    /\ last.ok
    /\ last.val = Some(built[last.h].arg)

====
